---- MODULE Spec2Model ----
(***************************************************************************)
(* Booking bot (src/main.py, src/utils.py, src/models.py, src/admin.py):   *)
(* the per-user booking sessions, the Booking rows and their status state  *)
(* machine, the payment handshake and the cancellation flow.               *)
(*                                                                         *)
(* Dates are day numbers; the clock `now` counts hours and a day is 24 of  *)
(* them.  Money is counted in minor units (hundredths of the currency      *)
(* unit): a Resource price of 19.99 is 1999, and Booking.amount, which the *)
(* code stores as total_amount / 100, is kept as the total_amount it was   *)
(* computed from.                                                          *)
(*                                                                         *)
(* A callback event can only carry the data of a button the bot has put    *)
(* on a keyboard of that user's chat; old messages keep their keyboards    *)
(* and a tap may be handled long after its keyboard was replaced, so a     *)
(* button once rendered stays available.  `buttons` records, per user,     *)
(* the Apply, booking-view and cancel buttons rendered so far, and which   *)
(* calendars (check-in stage, check-out stage) the user has been shown.    *)
(* The day buttons of the calendars are not recorded one by one: a user    *)
(* who opens the check-in calendar when the bot starts (no Booking exists, *)
(* no day is past) gets a button for every day, and after picking the      *)
(* first day a check-out button for every later day, and keeps them.       *)
(***************************************************************************)
EXTENDS Integers, Sequences, FiniteSets, TLC

\* ---------------------------------------------------------------- bounds
LastDay == 4
MaxBookings == 1
MaxCompletedNotes == 2
MaxCancelNotes == 2
MaxHourOfDay == 2
MaxPickDay == 2
MaxForwards == 2

\* tr >= 20 of ReconnectMixin.execute_sql
MaxRetries == 20

Users == {1, 2}
Resources == {1, 2}
DaysPerMonth == 2
FirstDay == 1
Days == FirstDay..LastDay
MonthOf(d) == ((d - 1) \div DaysPerMonth) + 1
Months == 1..MonthOf(LastDay)
PriceSet == {10000, 1999}

\* ------------------------------------------------------------ data model
None == 0

Statuses == {"pending", "waiting_payment", "failed", "conflict", "cancelled", "confirmed"}

Booking(t, r, ci, co, st) ==
    [telegram_id |-> t, resource |-> r, check_in |-> ci, check_out |-> co,
     status |-> st, amount |-> 0]

NoRow == Booking(0, 0, None, None, "-")

\* The worker threads of the bot (TeleBot(threaded=True)); two of them do.
Workers == {1, 2}

NoSession ==
    [res_id |-> 0, check_in |-> None, check_out |-> None, calendar_month |-> 0,
     created |-> 0]

\* A worker between two events.
Idle == [pc |-> "idle", user |-> 0, state |-> NoSession, id |-> 0]

\* STATE_FILE when it does not exist.
NoFile == [exists |-> FALSE, data |-> {}]

\* The cleaner thread between two runs of the sweep; failed says whether an
\* earlier run ended with an error.
Asleep(failed) == [pc |-> "sleeping", now |-> 0, di_used |-> 0, todo |-> {},
                   expired_users |-> {}, failed |-> failed]

\* The database adapter with no statement in progress.
NoException == [class |-> "-", text |-> "-"]
NoCall == [pc |-> "idle", tr |-> 0, executions |-> 0, reconnects |-> 0, slept |-> 0,
           exc |-> NoException, raised |-> NoException]

VARIABLES
    now,                 \* wall clock, in hours
    price,               \* Resource.price of every Resource row, in minor units
    bookings,            \* the Booking table: row id = index
    user_booking_state,  \* the session dict: user id -> session
    buttons,             \* per user: callback buttons rendered in that chat
    invoice,             \* per Booking id: total of the invoice sent, 0 if none
    authorized,          \* per Booking id: a pre-checkout was answered ok
    completed_notes,     \* per Booking id: booking-completed messages in MANAGERS_CHAT
    cancel_notes,        \* per Booking id: booking-cancelled messages in MANAGERS_CHAT
    workers,             \* per worker thread: the handler it is in the middle of
    process,             \* "polling" while the bot runs, "down" between exit and startup
    state_file,          \* STATE_FILE: whether it exists and the JSON text it holds
    cleaner,             \* the cleaner thread: where it is in its loop
    mysql,               \* the database adapter: the execute_sql call in progress
    help_waiting_for_input,  \* the users whose next text goes to the managers
    help_cancel_messages,    \* the users whose help question message is remembered
    forwarded,           \* per user: texts forwarded to MANAGERS_CHAT
    last                 \* the event handled last and what it answered

vars == <<now, price, bookings, user_booking_state, buttons, invoice, authorized,
          completed_notes, cancel_notes, workers, process, state_file, cleaner, mysql,
          help_waiting_for_input, help_cancel_messages, forwarded, last>>

help == <<help_waiting_for_input, help_cancel_messages, forwarded>>

\* What the booking, payment and admin handlers never touch.
side == <<process, state_file, cleaner, mysql, help>>

db == <<price, bookings>>
telegram == <<invoice, authorized>>
managers_chat == <<completed_notes, cancel_notes>>

Today == now \div 24

Ids == 1..Len(bookings)

\* An event and its answer; view is what the handler showed or dropped (the
\* calendar cells, the sessions a sweep removed), << >> when it is nothing.
EventView(op, u, id, row, arg, out, view) ==
    [op |-> op, user |-> u, id |-> id, row |-> row, arg |-> arg, out |-> out,
     view |-> view]

Event(op, u, id, row, arg, out) == EventView(op, u, id, row, arg, out, << >>)

\* The module-level state of a process that has just started, before
\* load_user_booking_state, and the threads and the adapter at rest.
SideInit ==
    /\ process = "polling"
    /\ state_file = NoFile
    /\ cleaner = Asleep(FALSE)
    /\ mysql = NoCall
    /\ help_waiting_for_input = {}
    /\ help_cancel_messages = {}
    /\ forwarded = [u \in Users |-> 0]

\* ------------------------------------------------------- dict operations
\* A store whose entries all hold the value last written.
DictSet_Shared(d, k, v) == [x \in (DOMAIN d) \cup {k} |-> v]

DictSet(d, k, v) == [x \in (DOMAIN d) \cup {k} |-> IF x = k THEN v ELSE d[x]]
DictPop(d, k) == [x \in (DOMAIN d) \ {k} |-> d[x]]
EmptyDict == [x \in {} |-> 0]

SetMin(S) == CHOOSE x \in S : \A y \in S : x <= y

\* ------------------------------------------------------------- utils.py
BookedRow_Query(b, res_id) ==
    /\ b.resource = res_id
    /\ (b.check_out = None \/ b.check_out >= Today)
    /\ b.status = "confirmed"
    /\ b.check_in # None

\* get_booked_ranges_for_resource: (telegram_id, start, end) of the confirmed
\* Bookings of res_id that have not ended, in row order.
BookedRow(b, res_id) ==
    /\ b.resource = res_id
    /\ (b.check_out = None \/ b.check_out >= Today)
    /\ b.status = "confirmed"
    /\ b.check_in # None
    /\ (IF b.check_out # None THEN b.check_out ELSE b.check_in) >= Today

RangeOf(b) ==
    <<b.telegram_id, b.check_in, IF b.check_out # None THEN b.check_out ELSE b.check_in>>

get_booked_ranges_for_resource(res_id) ==
    LET rows == SelectSeq(bookings, LAMBDA b : BookedRow(b, res_id))
    IN  [i \in 1..Len(rows) |-> RangeOf(rows[i])]

\* get_day_status: the first range that holds the day decides.
get_day_status(day_date, ranges, current_user_id) ==
    LET hit == {i \in 1..Len(ranges) : ranges[i][2] <= day_date /\ day_date <= ranges[i][3]}
    IN  IF hit = {} THEN "free"
        ELSE IF ranges[SetMin(hit)][1] = current_user_id THEN "mine" ELSE "others"

\* ------------------------------------------------------ ReconnectMixin
\* An exception is its class and the words of str(exc).
reconnect_errors ==
    {<<"OperationalError", <<"2006">>>>,
     <<"OperationalError", <<"2013">>>>,
     <<"OperationalError", <<"2003">>>>,
     <<"OperationalError", <<"2014">>>>,
     <<"OperationalError", <<"MySQL", "Connection", "not", "available.">>>>}

\* str.lower, word by word
lower(word) ==
    CASE word = "MySQL" -> "mysql"
      [] word = "Connection" -> "connection"
      [] word = "Lost" -> "lost"
      [] word = "Lock" -> "lock"
      [] word = "Duplicate" -> "duplicate"
      [] OTHER -> word

Lowered(text) == [i \in 1..Len(text) |-> lower(text[i])]

\* err_fragment in exc_repr
Within(err_fragment, exc_repr) ==
    \E k \in 0..(Len(exc_repr) - Len(err_fragment)) :
        \A i \in 1..Len(err_fragment) : exc_repr[k + i] = err_fragment[i]

\* self._reconnect_errors: class -> lowered fragments
ReconnectFragments(exc_class) ==
    {Lowered(e[2]) : e \in {x \in reconnect_errors : x[1] = exc_class}}

IsTransient_ClassOnly(exc) == ReconnectFragments(exc.class) # {}

\* The two tests of the except branch: the class is listed and a fragment of
\* the class is in the lowered message.
IsTransient(exc) ==
    /\ ReconnectFragments(exc.class) # {}
    /\ \E err_fragment \in ReconnectFragments(exc.class) :
          Within(err_fragment, Lowered(exc.text))

Exhausted_Never(tr) == FALSE

\* if tr >= 20: raise exc
Exhausted(tr) == tr >= MaxRetries

\* What one execution of a statement can end with: a result, or one of these.
Exceptions ==
    {[class |-> "OperationalError", text |-> <<"2006", "MySQL", "server", "has", "gone", "away">>],
     [class |-> "OperationalError", text |-> <<"MySQL", "Connection", "not", "available.">>],
     [class |-> "OperationalError", text |-> <<"1205", "Lock", "wait", "timeout", "exceeded">>],
     [class |-> "InterfaceError", text |-> <<"2006", "MySQL", "server", "has", "gone", "away">>],
     [class |-> "IntegrityError", text |-> <<"1062", "Duplicate", "entry">>]}

\* A caller hands a statement to execute_sql (tr = 0).
execute_sql_call ==
    /\ mysql.pc # "executing"
    /\ mysql' = [NoCall EXCEPT !.pc = "executing"]
    /\ UNCHANGED <<now, db, user_booking_state, buttons, telegram, managers_chat, workers,
                   process, state_file, cleaner, help, last>>

\* A pause that does not grow with the retry level.
sleep_Flat(tr) == 1

\* time.sleep(tr / 10) at retry level tr, in tenths of a second.
sleep(tr) == tr

\* One level of execute_sql: the statement is executed; a result returns to
\* the caller; an exception that is not transient is raised; a transient one
\* makes the adapter close and connect again (a failure to connect is only
\* logged), then raise it when tr has reached the limit, else sleep tr/10
\* seconds and run the next level with tr + 1.
execute_sql(outcome) ==
    /\ mysql.pc = "executing"
    /\ mysql' =
          IF outcome = NoException
          THEN [mysql EXCEPT !.pc = "returned", !.executions = @ + 1, !.exc = NoException]
          ELSE IF ~IsTransient(outcome)
          THEN [mysql EXCEPT !.pc = "raised", !.executions = @ + 1, !.exc = outcome,
                             !.raised = outcome]
          ELSE IF Exhausted(mysql.tr)
          THEN [mysql EXCEPT !.pc = "raised", !.executions = @ + 1, !.exc = outcome,
                             !.reconnects = @ + 1, !.raised = outcome]
          ELSE [mysql EXCEPT !.executions = @ + 1, !.exc = outcome, !.reconnects = @ + 1,
                             !.slept = @ + sleep(mysql.tr), !.tr = @ + 1]
    /\ UNCHANGED <<now, db, user_booking_state, buttons, telegram, managers_chat, workers,
                   process, state_file, cleaner, help, last>>

\* ------------------------------------------------------------- calendar
\* send_calendar's per-day branch: what the cell of day_date shows.
DayCell(day_date, select_type, state, user_id) ==
    LET status == get_day_status(day_date, get_booked_ranges_for_resource(state.res_id), user_id)
    IN  IF day_date < Today THEN "past"
        ELSE IF status = "mine" THEN "mine"
        ELSE IF status = "others" THEN "others"
        ELSE IF /\ select_type = "check_out"
                /\ (state.check_in = None \/ day_date <= state.check_in) THEN "disabled"
        ELSE "pick"

\* The day buttons of the keyboard send_calendar builds for a session.
CalendarButtons(state, user_id, select_type) ==
    {<<"datepick", select_type, d>> :
        d \in {x \in Days : /\ MonthOf(x) = state.calendar_month
                            /\ DayCell(x, select_type, state, user_id) = "pick"}}

\* The day cells of the keyboard send_calendar builds: a datepick button with
\* the stage and the day for a selectable day, a "null" button otherwise.
CalendarCells(state, user_id, select_type) ==
    [d \in {x \in Days : MonthOf(x) = state.calendar_month} |->
        IF DayCell(d, select_type, state, user_id) = "pick"
        THEN <<"datepick", select_type, d>>
        ELSE <<"null", DayCell(d, select_type, state, user_id), 0>>]

\* send_calendar: without a session it shows the session error and then
\* fails on the lookup; with one it puts a calendar of the stage in the chat.
send_calendar(states, user_id, select_type) ==
    IF user_id \in DOMAIN states
    THEN [buttons EXCEPT ![user_id] = @ \cup {<<"calendar", select_type, 0>>}]
    ELSE buttons

\* The day buttons a user who has been shown a calendar of the stage holds.
DayButton(u, select_type, d) ==
    /\ <<"calendar", select_type, 0>> \in buttons[u]
    /\ select_type = "check_out" => d > FirstDay

\* ----------------------------------------------------------------- Init
\* The bot starts with an empty Booking table and no session; the Resource
\* rows and their prices are whatever the admin console has entered.
Start(prices) ==
    /\ now = 24 * FirstDay
    /\ price \in prices
    /\ bookings = << >>
    /\ user_booking_state = EmptyDict
    /\ buttons = [u \in Users |-> {}]
    /\ invoice = << >>
    /\ authorized = << >>
    /\ completed_notes = << >>
    /\ cancel_notes = << >>
    /\ workers = [w \in Workers |-> Idle]
    /\ SideInit
    /\ last = Event("start", 0, 0, NoRow, 0, "-")

Init == Start({[r \in Resources |-> 1999]})

\* ------------------------------------------------------- booking session
\* callback_book: a fresh session for the user, then the check-in calendar.
callback_book(u, res_id) ==
    LET state == [res_id |-> res_id, check_in |-> None, check_out |-> None,
                  calendar_month |-> MonthOf(Today), created |-> now]
        states == DictSet(user_booking_state, u, state)
    IN  /\ user_booking_state' = states
        /\ buttons' = send_calendar(states, u, "check_in")
        /\ last' = EventView("book", u, 0, NoRow, res_id, "check_in",
                              CalendarCells(state, u, "check_in"))
        /\ UNCHANGED <<side, workers, now, db, telegram, managers_chat>>

Overlaps_Strict(state, date_obj) ==
    \E i \in Ids :
        /\ bookings[i].resource = state.res_id
        /\ bookings[i].status = "confirmed"
        /\ bookings[i].check_in # None
        /\ bookings[i].check_out # None
        /\ state.check_in < bookings[i].check_out
        /\ date_obj > bookings[i].check_in

\* The overlap test of callback_datepick against the confirmed Bookings.
Overlaps(state, date_obj) ==
    \E i \in Ids :
        /\ bookings[i].resource = state.res_id
        /\ bookings[i].status = "confirmed"
        /\ bookings[i].check_in # None
        /\ bookings[i].check_out # None
        /\ state.check_in <= bookings[i].check_out
        /\ date_obj >= bookings[i].check_in

\* The range test of a check-out tap accepting the check-in day itself.
date_range_error_Before(state, date_obj) == date_obj < state.check_in

\* date_obj <= state['check_in'], the range test of a check-out tap.
date_range_error(state, date_obj) == date_obj <= state.check_in

\* A check-in tap that starts the selection over.
set_check_in_Restart(state, date_obj) == [state EXCEPT !.check_in = date_obj, !.check_out = None]

\* state['check_in'] = date_obj, the session after a check-in tap.
set_check_in(state, date_obj) == [state EXCEPT !.check_in = date_obj]

callback_datepick(u, select_type, date_obj) ==
    /\ DayButton(u, select_type, date_obj)
    /\ UNCHANGED <<side, workers, now, db, telegram, managers_chat>>
    /\ IF u \notin DOMAIN user_booking_state
       THEN \* KeyError on the session lookup
            /\ last' = Event("datepick", u, 0, NoRow, date_obj, "error")
            /\ UNCHANGED <<user_booking_state, buttons>>
       ELSE LET state == user_booking_state[u] IN
            IF select_type = "check_in"
            THEN LET states == DictSet(user_booking_state, u, set_check_in(state, date_obj))
                 IN  /\ user_booking_state' = states
                     /\ buttons' = send_calendar(states, u, "check_out")
                     /\ last' = EventView("datepick", u, 0, NoRow, date_obj, "check_out",
                                           CalendarCells(states[u], u, "check_out"))
            ELSE IF state.check_in = None
            THEN \* date <= None raises TypeError
                 /\ last' = Event("datepick", u, 0, NoRow, date_obj, "error")
                 /\ UNCHANGED <<user_booking_state, buttons>>
            ELSE IF date_range_error(state, date_obj)
            THEN /\ last' = Event("datepick", u, 0, NoRow, date_obj, "date_range_error")
                 /\ UNCHANGED <<user_booking_state, buttons>>
            ELSE IF Overlaps(state, date_obj)
            THEN LET states == DictSet(user_booking_state, u, [state EXCEPT !.check_in = None])
                 IN  /\ user_booking_state' = states
                     /\ buttons' = send_calendar(states, u, "check_in")
                     /\ last' = EventView("datepick", u, 0, NoRow, date_obj, "overlaps_error",
                                           CalendarCells(states[u], u, "check_in"))
            ELSE /\ user_booking_state' =
                        DictSet(user_booking_state, u, [state EXCEPT !.check_out = date_obj])
                 /\ buttons' = [buttons EXCEPT ![u] = @ \cup {<<"confirm_booking", "-", 0>>}]
                 /\ last' = Event("datepick", u, 0, NoRow, date_obj, "picked_period")

\* A month change that also drops the days picked so far.
set_calendar_month_Reset(state, month) ==
    [state EXCEPT !.calendar_month = month, !.check_in = None, !.check_out = None]

\* state['calendar_year'], state['calendar_month'] = y, m
set_calendar_month(state, month) == [state EXCEPT !.calendar_month = month]

callback_change_month(u, select_type, month) ==
    /\ <<"calendar", select_type, 0>> \in buttons[u]
    /\ month \in Months
    /\ UNCHANGED <<side, workers, now, db, telegram, managers_chat>>
    /\ IF u \notin DOMAIN user_booking_state
       THEN /\ last' = Event("month", u, 0, NoRow, month, "error")
            /\ UNCHANGED <<user_booking_state, buttons>>
       ELSE LET states == DictSet(user_booking_state, u,
                                  set_calendar_month(user_booking_state[u], month))
            IN  /\ user_booking_state' = states
                /\ buttons' = send_calendar(states, u, select_type)
                /\ last' = EventView("month", u, 0, NoRow, month, select_type,
                                      CalendarCells(states[u], u, select_type))

\* ------------------------------------------------------ payment handshake
Abs(n) == IF n < 0 THEN -n ELSE n

\* int(float(((check_out - check_in).days + 1) * price) * 100), with price the
\* float of the Resource row: for a whole price such as 100.0 the product is
\* exact; for 19.99 the double product falls just short of the whole number
\* for these day counts and int() truncates it toward zero
\* (int(float(2 * 19.99) * 100) = 3997, int(float(3 * 19.99) * 100) = 5997).
ChargeAmount(check_in, check_out, p) ==
    LET n == (check_out - check_in) + 1
    IN  IF p = 1999 /\ Abs(n) \in {1, 2, 4, 5, 7, 8}
        THEN (IF n > 0 THEN n * p - 1 ELSE n * p + 1)
        ELSE n * p

\* callback_confirm_booking; `sent` says whether send_invoice succeeded
\* (Telegram refuses an invoice whose total is not positive), `ok` whether the
\* calls to Telegram that follow it (edit_message_text of the except branch,
\* delete_message) succeeded: when one raises, the handler ends before the pop.
callback_confirm_booking(u, sent, ok) ==
    /\ <<"confirm_booking", "-", 0>> \in buttons[u]
    /\ UNCHANGED <<side, workers, now, price, buttons>>
    /\ IF \/ u \notin DOMAIN user_booking_state
          \/ user_booking_state[u].check_in = None
          \/ user_booking_state[u].check_out = None
       THEN /\ last' = Event("confirm", u, 0, NoRow, 0, "session_error")
            /\ UNCHANGED <<bookings, user_booking_state, telegram, managers_chat>>
       ELSE LET state == user_booking_state[u]
                amount == ChargeAmount(state.check_in, state.check_out, price[state.res_id])
                row == Booking(u, state.res_id, state.check_in, state.check_out,
                               IF sent THEN "waiting_payment" ELSE "failed")
            IN  /\ sent => amount > 0
                /\ bookings' = Append(bookings, row)
                /\ invoice' = Append(invoice, IF sent THEN amount ELSE 0)
                /\ authorized' = Append(authorized, FALSE)
                /\ completed_notes' = Append(completed_notes, 0)
                /\ cancel_notes' = Append(cancel_notes, 0)
                /\ user_booking_state' = IF ok THEN DictPop(user_booking_state, u)
                                       ELSE user_booking_state
                /\ last' = Event("confirm", u, Len(bookings) + 1, NoRow, amount,
                                 IF sent THEN "invoice" ELSE "payment_error")

\* ------------------------------------------- confirm in a worker thread
\* TeleBot hands each update to one of its worker threads; the steps below
\* are callback_confirm_booking as one worker runs it, cut at its blocking
\* calls to the database and to Telegram.
NewBooking_Pending(u, state) ==
    Booking(u, state.res_id, state.check_in, state.check_out, "pending")

\* Booking.create of callback_confirm_booking
NewBooking(u, state) ==
    Booking(u, state.res_id, state.check_in, state.check_out, "waiting_payment")

\* The session check and Booking.create.
confirm_create(w, u) ==
    /\ workers[w].pc = "idle"
    /\ <<"confirm_booking", "-", 0>> \in buttons[u]
    /\ UNCHANGED <<side, now, price, user_booking_state, buttons>>
    /\ IF \/ u \notin DOMAIN user_booking_state
          \/ user_booking_state[u].check_in = None
          \/ user_booking_state[u].check_out = None
       THEN /\ last' = Event("confirm", u, 0, NoRow, 0, "session_error")
            /\ UNCHANGED <<workers, bookings, telegram, managers_chat>>
       ELSE /\ bookings' = Append(bookings, NewBooking(u, user_booking_state[u]))
            /\ invoice' = Append(invoice, 0)
            /\ authorized' = Append(authorized, FALSE)
            /\ completed_notes' = Append(completed_notes, 0)
            /\ cancel_notes' = Append(cancel_notes, 0)
            /\ workers' = [workers EXCEPT ![w] =
                              [pc |-> "send_invoice", user |-> u,
                               state |-> user_booking_state[u], id |-> Len(bookings) + 1]]
            /\ last' = Event("confirm", u, Len(bookings) + 1, NoRow, 0, "created")

\* An except branch that leaves the row as it was created.
Invoiced_Kept(booking, sent) == booking

\* The row after send_invoice: the except branch saves status 'failed'.
Invoiced(booking, sent) == IF sent THEN booking ELSE [booking EXCEPT !.status = "failed"]

\* send_invoice and its except branch.
confirm_invoice(w, sent) ==
    LET id == workers[w].id
        amount == ChargeAmount(bookings[id].check_in, bookings[id].check_out,
                               price[workers[w].state.res_id])
    IN  /\ workers[w].pc = "send_invoice"
        /\ sent => amount > 0
        /\ invoice' = [invoice EXCEPT ![id] = IF sent THEN amount ELSE 0]
        /\ bookings' = [bookings EXCEPT ![id] = Invoiced(@, sent)]
        /\ workers' = [workers EXCEPT ![w].pc = "pop"]
        /\ last' = Event("confirm", workers[w].user, id, NoRow, amount,
                         IF sent THEN "invoice" ELSE "payment_error")
        /\ UNCHANGED <<side, now, price, user_booking_state, buttons, authorized, managers_chat>>

\* delete_message and user_booking_state.pop
confirm_pop(w) ==
    /\ workers[w].pc = "pop"
    /\ user_booking_state' = DictPop(user_booking_state, workers[w].user)
    /\ workers' = [workers EXCEPT ![w] = Idle]
    /\ last' = Event("confirm", workers[w].user, workers[w].id, NoRow, 0, "popped")
    /\ UNCHANGED <<side, now, db, buttons, telegram, managers_chat>>

\* conflict_q of handle_pre_checkout_query
Conflict(id) ==
    \E j \in Ids :
        /\ bookings[j].resource = bookings[id].resource
        /\ j # id
        /\ bookings[j].status = "confirmed"
        /\ bookings[j].check_in # None /\ bookings[j].check_out # None
        /\ bookings[j].check_in <= bookings[id].check_out
        /\ bookings[j].check_out >= bookings[id].check_in

\* PreCheckout with the amount compared before the conflict query.
PreCheckout_AmountFirst(id, total_amount) ==
    LET booking == bookings[id] IN
    IF booking.status # "waiting_payment" THEN <<"pre_checkout_error_2", booking.status>>
    ELSE IF booking.check_in = None \/ booking.check_out = None
    THEN <<"pre_checkout_error_3", "failed">>
    ELSE IF total_amount # ChargeAmount(booking.check_in, booking.check_out,
                                        price[booking.resource])
    THEN <<"wrong_amount", booking.status>>
    ELSE IF Conflict(id) THEN <<"pre_checkout_error_4", "conflict">>
    ELSE <<"ok", booking.status>>

\* What handle_pre_checkout_query does with Booking id and the proposed total:
\* <<answer, status afterwards>>.
PreCheckout(id, total_amount) ==
    LET booking == bookings[id] IN
    IF booking.status # "waiting_payment" THEN <<"pre_checkout_error_2", booking.status>>
    ELSE IF booking.check_in = None \/ booking.check_out = None
    THEN <<"pre_checkout_error_3", "failed">>
    ELSE IF Conflict(id) THEN <<"pre_checkout_error_4", "conflict">>
    ELSE IF total_amount # ChargeAmount(booking.check_in, booking.check_out,
                                        price[booking.resource])
    THEN <<"wrong_amount", booking.status>>
    ELSE <<"ok", booking.status>>

handle_pre_checkout_query(id, total_amount) ==
    LET res == PreCheckout(id, total_amount) IN
    /\ bookings' = [bookings EXCEPT ![id].status = res[2]]
    /\ authorized' = [authorized EXCEPT ![id] = @ \/ res[1] = "ok"]
    /\ last' = Event("pre_checkout", bookings[id].telegram_id, id, bookings[id],
                     total_amount, res[1])
    /\ UNCHANGED <<side, workers, now, price, user_booking_state, buttons, invoice, managers_chat>>

\* The new row of handle_successful_payment.
Paid(booking, total_amount) ==
    IF booking.status = "confirmed" THEN booking
    ELSE [booking EXCEPT !.status = "confirmed", !.amount = total_amount]

handle_successful_payment(id, total_amount) ==
    /\ bookings' = [bookings EXCEPT ![id] = Paid(@, total_amount)]
    /\ completed_notes' = [completed_notes EXCEPT ![id] =
                              IF bookings[id].status = "confirmed" THEN @ ELSE @ + 1]
    /\ last' = Event("successful_payment", bookings[id].telegram_id, id, bookings[id],
                     total_amount,
                     IF bookings[id].status = "confirmed" THEN "already" ELSE "success_booking")
    /\ UNCHANGED <<side, workers, now, price, user_booking_state, buttons, invoice, authorized, cancel_notes>>

\* ------------------------------------------------------------ my bookings
\* The "res:<id>:!" buttons of all_my_bookings, for the rows as they are in tbl.
MyBookingButtons(u, tbl) ==
    {<<"res", "!", i>> :
        i \in {j \in 1..Len(tbl) : /\ tbl[j].telegram_id = u
                                   /\ tbl[j].status = "confirmed"
                                   /\ tbl[j].check_out # None
                                   /\ tbl[j].check_out > Today}}

all_my_bookings(u) ==
    /\ buttons' = [buttons EXCEPT ![u] = @ \cup MyBookingButtons(u, bookings)]
    /\ last' = Event("bookings", u, 0, NoRow, 0, "-")
    /\ UNCHANGED <<side, workers, now, db, user_booking_state, telegram, managers_chat>>

\* callback_resource on a "res:<id>:!" button: the booking view, with the
\* cancel button when check-in is after today.
callback_resource(u, id) ==
    /\ <<"res", "!", id>> \in buttons[u]
    /\ buttons' = [buttons EXCEPT ![u] =
                      IF bookings[id].check_in # None /\ bookings[id].check_in > Today
                      THEN @ \cup {<<"cancel_my_booking", "-", id>>} ELSE @]
    /\ last' = Event("res", u, id, bookings[id], 0, "-")
    /\ UNCHANGED <<side, workers, now, db, user_booking_state, telegram, managers_chat>>

\* Cancelled releasing the row for a new payment instead of closing it.
Cancelled_Release(booking) ==
    IF booking.check_in <= Today THEN booking ELSE [booking EXCEPT !.status = "pending"]

\* Cancelled refusing only the bookings that started before today.
Cancelled_Started(booking) ==
    IF booking.check_in < Today THEN booking ELSE [booking EXCEPT !.status = "cancelled"]

\* The row callback_cancel_my_booking saves.
Cancelled(booking) ==
    IF booking.check_in <= Today THEN booking ELSE [booking EXCEPT !.status = "cancelled"]

callback_cancel_my_booking(u, id) ==
    /\ <<"cancel_my_booking", "-", id>> \in buttons[u]
    /\ bookings[id].check_in > Today => cancel_notes[id] < MaxCancelNotes
    /\ bookings' = [bookings EXCEPT ![id] = Cancelled(@)]
    /\ cancel_notes' = [cancel_notes EXCEPT ![id] =
                           IF bookings[id].check_in <= Today THEN @ ELSE @ + 1]
    /\ buttons' = [buttons EXCEPT ![u] = @ \cup MyBookingButtons(u, bookings')]
    /\ last' = Event("cancel", u, id, bookings[id], 0,
                     IF bookings[id].check_in <= Today THEN "cancel_error" ELSE "cancel_apply")
    /\ UNCHANGED <<side, workers, now, price, user_booking_state, telegram, completed_notes>>

\* ------------------------------------------------------------ background
Expired_AtLeast(state) == state.check_out = None /\ (now - state.created) >= 24

Expired(state) == state.check_out = None /\ (now - state.created) > 24

clean_expired_booking_states ==
    /\ user_booking_state' =
          [u \in {x \in DOMAIN user_booking_state : ~Expired(user_booking_state[x])}
              |-> user_booking_state[u]]
    /\ last' = EventView("sweep", 0, 0, NoRow, 0, "-",
                          [u \in {x \in DOMAIN user_booking_state : Expired(user_booking_state[x])}
                              |-> user_booking_state[u]])
    /\ UNCHANGED <<side, workers, now, db, buttons, telegram, managers_chat>>

\* ------------------------------------------------------------------ help
\* A private text message is the sequence of its words; a command is "/"
\* followed by its name.
Texts ==
    {<<"/", "start">>, <<"/", "help">>, <<"/", "bookings">>, <<"/", "cancel">>, <<"hello">>}

\* message.text.startswith("/")
startswith_slash(text) == text[1] = "/"

\* The command a commands=[...] filter sees in a text, "-" when it is none.
Command(text) == IF startswith_slash(text) /\ Len(text) > 1 THEN text[2] ELSE "-"

\* start: the resource list is sent.
start(u) ==
    /\ last' = EventView("message", u, 0, NoRow, 0, "start", <<"/", "start">>)
    /\ UNCHANGED <<side, workers, now, db, user_booking_state, buttons, telegram, managers_chat>>

\* help_command: the question with its Cancel button is sent, and the user is
\* waited for.
help_command(u) ==
    /\ buttons' = [buttons EXCEPT ![u] = @ \cup {<<"help_cancel", "-", 0>>}]
    /\ help_cancel_messages' = help_cancel_messages \cup {u}
    /\ help_waiting_for_input' = help_waiting_for_input \cup {u}
    /\ last' = EventView("message", u, 0, NoRow, 0, "help", <<"/", "help">>)
    /\ UNCHANGED <<forwarded, process, state_file, cleaner, mysql, workers, now, db,
                   user_booking_state, telegram, managers_chat>>

\* callback_help_cancel
callback_help_cancel(u) ==
    /\ <<"help_cancel", "-", 0>> \in buttons[u]
    /\ help_waiting_for_input' = help_waiting_for_input \ {u}
    /\ last' = Event("help_cancel", u, 0, NoRow, 0, "help_canceled_msg")
    /\ UNCHANGED <<help_cancel_messages, forwarded, process, state_file, cleaner, mysql,
                   workers, now, db, user_booking_state, buttons, telegram, managers_chat>>

\* handle_help_message
handle_help_message(u, text) ==
    /\ UNCHANGED <<process, state_file, cleaner, mysql, workers, now, db,
                   user_booking_state, buttons, telegram, managers_chat>>
    /\ help_waiting_for_input' = help_waiting_for_input \ {u}
    /\ IF startswith_slash(text)
       THEN /\ last' = EventView("message", u, 0, NoRow, 0, "help_dropped", text)
            /\ UNCHANGED <<help_cancel_messages, forwarded>>
       ELSE /\ forwarded[u] < MaxForwards
            /\ forwarded' = [forwarded EXCEPT ![u] = @ + 1]
            /\ help_cancel_messages' = help_cancel_messages \ {u}
            /\ last' = EventView("message", u, 0, NoRow, 0, "success_help_msg", text)

\* A private text message of user u: TeleBot runs the first handler, in the
\* order of registration, whose filters accept it: start, (restart,)
\* help_command, handle_help_message, all_my_bookings; none may accept it.
message(u, text) ==
    IF Command(text) = "start" THEN start(u)
    ELSE IF Command(text) = "help" THEN help_command(u)
    ELSE IF u \in help_waiting_for_input THEN handle_help_message(u, text)
    ELSE IF Command(text) = "bookings" THEN all_my_bookings(u)
    ELSE /\ last' = EventView("message", u, 0, NoRow, 0, "ignored", text)
         /\ UNCHANGED <<side, workers, now, db, user_booking_state, buttons, telegram,
                        managers_chat>>

\* ------------------------------------------------------- cleaner thread
\* The sweep as the cleaner thread runs it next to the worker threads: the
\* loop over user_booking_state.items() takes one session per step, and the
\* dict iterator raises RuntimeError when the dict has changed size.
Caught_Nothing(error) == FALSE

\* except Exception of cleaner_loop
Caught(error) == error \in {"RuntimeError", "KeyError", "TypeError"}

\* The cleaner wakes up: clean_expired_booking_states reads the clock and
\* starts the loop.
sweep_begin ==
    /\ cleaner.pc = "sleeping"
    /\ cleaner' = [cleaner EXCEPT !.pc = "iterating", !.now = now,
                                  !.di_used = Cardinality(DOMAIN user_booking_state),
                                  !.todo = DOMAIN user_booking_state,
                                  !.expired_users = {}]
    /\ last' = Event("sweep", 0, 0, NoRow, 0, "begin")
    /\ UNCHANGED <<now, db, user_booking_state, buttons, telegram, managers_chat, workers,
                   process, state_file, mysql, help>>

\* One step of the loop: the iterator raises, or it is exhausted and the
\* expired users are popped, or the next session is tested.
sweep_next ==
    /\ cleaner.pc = "iterating"
    /\ UNCHANGED <<now, db, buttons, telegram, managers_chat, workers, process, state_file,
                   mysql, help>>
    /\ IF Cardinality(DOMAIN user_booking_state) # cleaner.di_used
       THEN /\ cleaner' = IF Caught("RuntimeError") THEN Asleep(TRUE)
                          ELSE [cleaner EXCEPT !.pc = "dead", !.failed = TRUE]
            /\ last' = Event("sweep", 0, 0, NoRow, 0, "RuntimeError")
            /\ UNCHANGED user_booking_state
       ELSE IF cleaner.todo \cap DOMAIN user_booking_state = {}
       THEN /\ user_booking_state' =
                  [u \in DOMAIN user_booking_state \ cleaner.expired_users
                      |-> user_booking_state[u]]
            /\ cleaner' = Asleep(cleaner.failed)
            /\ last' = Event("sweep", 0, 0, NoRow, 0, "-")
       ELSE \E user_id \in cleaner.todo \cap DOMAIN user_booking_state :
               /\ cleaner' =
                     [cleaner EXCEPT
                         !.todo = @ \ {user_id},
                         !.expired_users =
                             IF /\ user_booking_state[user_id].check_out = None
                                /\ (cleaner.now - user_booking_state[user_id].created) > 24
                             THEN @ \cup {user_id} ELSE @]
               /\ last' = Event("sweep", user_id, 0, NoRow, 0, "visit")
               /\ UNCHANGED user_booking_state

\* ------------------------------------------------------------ environment
\* Time passes until the next midnight.
Tick ==
    /\ Today < LastDay
    /\ now' = 24 * (Today + 1)
    /\ last' = Event("tick", 0, 0, NoRow, 0, "-")
    /\ UNCHANGED <<side, workers, db, user_booking_state, buttons, telegram, managers_chat>>

\* An hour passes (the sweep wakes every hour).
Hour ==
    /\ now % 24 < MaxHourOfDay
    /\ now' = now + 1
    /\ last' = Event("hour", 0, 0, NoRow, 0, "-")
    /\ UNCHANGED <<side, workers, db, user_booking_state, buttons, telegram, managers_chat>>

\* --------------------------------------------------------- state handoff
\* JSON text of the handoff file.  A decimal string is the sequence of its
\* digits; an ISO date is <<day>>, an ISO datetime <<day, hour of day>>; null
\* is the empty sequence; an object is the set of its <<key, value>> pairs.
RECURSIVE str(_)
str(n) == IF n < 10 THEN <<n>> ELSE Append(str(n \div 10), n % 10)

RECURSIVE int(_)
int(s) == IF Len(s) = 1 THEN s[1] ELSE 10 * int(SubSeq(s, 1, Len(s) - 1)) + s[Len(s)]

null == << >>

date_isoformat(d) == <<d>>
datetime_isoformat(dt) == <<dt \div 24, dt % 24>>

\* datetime.fromisoformat: a date-only string gives midnight of that day.
fromisoformat(v) == IF Len(v) = 1 THEN 24 * v[1] ELSE 24 * v[1] + v[2]

date_Kept(dt) == dt

\* datetime.date()
date(dt) == dt \div 24

\* save_user_booking_state: the map as written to STATE_FILE.
save_user_booking_state ==
    {<<str(user_id),
       [res_id |-> user_booking_state[user_id].res_id,
        check_in |-> IF user_booking_state[user_id].check_in = None THEN null
                     ELSE date_isoformat(user_booking_state[user_id].check_in),
        check_out |-> IF user_booking_state[user_id].check_out = None THEN null
                      ELSE date_isoformat(user_booking_state[user_id].check_out),
        calendar_month |-> user_booking_state[user_id].calendar_month,
        created |-> datetime_isoformat(user_booking_state[user_id].created)]>>
        : user_id \in DOMAIN user_booking_state}

\* load_user_booking_state: the map rebuilt from the file's text.
load_user_booking_state(data) ==
    [user_id \in {int(kv[1]) : kv \in data} |->
        LET state == (CHOOSE kv \in data : int(kv[1]) = user_id)[2] IN
        [res_id |-> state.res_id,
         check_in |-> IF state.check_in = null THEN None
                      ELSE date(fromisoformat(state.check_in)),
         check_out |-> IF state.check_out = null THEN None
                       ELSE date(fromisoformat(state.check_out)),
         calendar_month |-> state.calendar_month,
         created |-> fromisoformat(state.created)]]

\* /restart of an administrator: the map is saved, the process is replaced,
\* and the new process loads the file before it polls.
restart_bot ==
    /\ user_booking_state' = load_user_booking_state(save_user_booking_state)
    /\ workers' = [w \in Workers |-> Idle]
    /\ cleaner' = Asleep(FALSE)
    /\ mysql' = NoCall
    /\ help_waiting_for_input' = {}
    /\ help_cancel_messages' = {}
    /\ last' = Event("restart", 0, 0, NoRow, 0, "-")
    /\ UNCHANGED <<process, state_file, forwarded, now, db, buttons, telegram, managers_chat>>

\* The same in two steps.  restart_bot up to execv: the map is written to
\* STATE_FILE and the process image is replaced; the globals of the new image
\* are empty (line 30) until __main__ runs.
restart_exit ==
    /\ process = "polling"
    /\ state_file' = [exists |-> TRUE, data |-> save_user_booking_state]
    /\ process' = "down"
    /\ user_booking_state' = EmptyDict
    /\ workers' = [w \in Workers |-> Idle]
    /\ cleaner' = Asleep(FALSE)
    /\ mysql' = NoCall
    /\ help_waiting_for_input' = {}
    /\ help_cancel_messages' = {}
    /\ last' = Event("restart", 0, 0, NoRow, 0, "saved")
    /\ UNCHANGED <<forwarded, now, db, buttons, telegram, managers_chat>>

\* The process ends without /restart (it is killed, the host goes down):
\* nothing is saved.
kill ==
    /\ process = "polling"
    /\ process' = "down"
    /\ user_booking_state' = EmptyDict
    /\ workers' = [w \in Workers |-> Idle]
    /\ cleaner' = Asleep(FALSE)
    /\ mysql' = NoCall
    /\ help_waiting_for_input' = {}
    /\ help_cancel_messages' = {}
    /\ last' = Event("kill", 0, 0, NoRow, 0, "-")
    /\ UNCHANGED <<state_file, forwarded, now, db, buttons, telegram, managers_chat>>

Removed_Kept(file) == file

\* remove(STATE_FILE)
Removed(file) == NoFile

\* __main__: load_user_booking_state, then the cleaner thread and polling.
main ==
    /\ process = "down"
    /\ process' = "polling"
    /\ IF state_file.exists
       THEN /\ user_booking_state' = load_user_booking_state(state_file.data)
            /\ state_file' = Removed(state_file)
            /\ last' = Event("main", 0, 0, NoRow, 0, "loaded")
       ELSE /\ user_booking_state' = EmptyDict
            /\ state_file' = state_file
            /\ last' = Event("main", 0, 0, NoRow, 0, "no_file")
    /\ UNCHANGED <<workers, cleaner, mysql, help, now, db, buttons, telegram, managers_chat>>

\* ResourceView of the admin console edits a Resource's price.
ResourceView_update(r, p) ==
    /\ p # price[r]
    /\ price' = [price EXCEPT ![r] = p]
    /\ last' = Event("price", 0, 0, NoRow, p, "-")
    /\ UNCHANGED <<side, workers, now, bookings, user_booking_state, buttons, telegram, managers_chat>>

\* BookingAdmin of the admin console edits the status of a Booking.
BookingAdmin_update(id, st) ==
    /\ st # bookings[id].status
    /\ bookings' = [bookings EXCEPT ![id].status = st]
    /\ last' = Event("status", 0, id, bookings[id], 0, st)
    /\ UNCHANGED <<side, workers, now, price, user_booking_state, buttons, telegram, managers_chat>>

\* Telegram asks for pre-authorization when the user presses Pay on an
\* invoice that was sent; the total it proposes is the invoice's.
PreCheckoutEvent ==
    \E id \in Ids :
        /\ invoice[id] # 0
        /\ handle_pre_checkout_query(id, invoice[id])

\* Telegram reports the payment of an authorized invoice (an update may be
\* delivered again).
SuccessfulPaymentEvent ==
    \E id \in Ids :
        /\ authorized[id]
        /\ bookings[id].status # "confirmed" => completed_notes[id] < MaxCompletedNotes
        /\ handle_successful_payment(id, invoice[id])

\* ------------------------------------------------------- specifications
\* The session of u is ready for callback_confirm_booking to create a row.
Complete(u) ==
    /\ u \in DOMAIN user_booking_state
    /\ user_booking_state[u].check_in # None
    /\ user_booking_state[u].check_out # None

\* The Booking rows of user u.
RowsOf(u) == {i \in Ids : bookings[i].telegram_id = u}

\* The booking flow of the users U over the resources R; a user starts a
\* booking only while holding fewer than cap Booking rows, and Telegram
\* carries out the calls that follow the invoice.
BookingFlow(U, R, cap) ==
    \/ \E u \in U, r \in R :
          /\ Cardinality(RowsOf(u)) < cap
          /\ callback_book(u, r)
    \/ \E u \in U, d \in Days : callback_datepick(u, "check_in", d)
    \/ \E u \in U, d \in Days : callback_datepick(u, "check_out", d)
    \/ \E u \in U, sent \in BOOLEAN : callback_confirm_booking(u, sent, TRUE)

PaymentFlow ==
    \/ PreCheckoutEvent
    \/ SuccessfulPaymentEvent

\* /bookings, the booking view and the cancel button of the users U.
ManageFlow(U) ==
    \/ \E u \in U : all_my_bookings(u)
    \/ \E u \in U, id \in Ids : callback_resource(u, id)
    \/ \E u \in U, id \in Ids : callback_cancel_my_booking(u, id)

\* Several users book one resource, pay and cancel, all on one day.
Next ==
    \/ BookingFlow(Users, {1}, MaxBookings)
    \/ PaymentFlow
    \/ ManageFlow(Users)

Spec == Init /\ [][Next]_vars

\* One user's bookings from the first tap to the cancellation, over the days,
\* while the admin console edits prices.
InitOneUser == Start([Resources -> PriceSet])

NextOneUser ==
    \/ BookingFlow({1}, Resources, MaxBookings)
    \/ \E m \in Months, t \in {"check_in", "check_out"} : callback_change_month(1, t, m)
    \/ PaymentFlow
    \/ ManageFlow({1})
    \/ clean_expired_booking_states
    \/ Tick
    \/ \E r \in Resources, p \in PriceSet : ResourceView_update(r, p)

SpecOneUser == InitOneUser /\ [][NextOneUser]_vars

\* handle_pre_checkout_query as a function of the table: a Booking of user 1
\* next to one of user 2, both as the admin console (BookingAdmin) can have
\* left them, and any of the totals an invoice of the Booking may carry.
DatePairs ==
    {<<None, None>>} \cup {<<None, d>> : d \in Days} \cup {<<d, None>> : d \in Days}
        \cup {<<a, b>> \in Days \X Days : a <= b}

InitPre ==
    /\ now = 24 * FirstDay
    /\ price \in {f \in [Resources -> PriceSet] : f[2] = 10000}
    /\ bookings \in
          {<<Booking(1, 1, d1[1], d1[2], st1), Booking(2, r2, d2[1], d2[2], st2)>> :
              d1 \in DatePairs, st1 \in Statuses, r2 \in Resources,
              d2 \in DatePairs \ {<<None, None>>}, st2 \in {"confirmed", "waiting_payment"}}
    /\ user_booking_state = EmptyDict
    /\ buttons = [u \in Users |-> {}]
    /\ invoice = <<0, 0>>
    /\ authorized = <<FALSE, FALSE>>
    /\ completed_notes = <<0, 0>>
    /\ cancel_notes = <<0, 0>>
    /\ workers = [w \in Workers |-> Idle]
    /\ SideInit
    /\ last = Event("start", 0, 0, NoRow, 0, "-")

\* The totals tried on a Booking: the server-side amount, the plain product
\* and the amount of one day more.
Totals(booking) ==
    IF booking.check_in = None \/ booking.check_out = None
    THEN {price[booking.resource]}
    ELSE LET amount == ChargeAmount(booking.check_in, booking.check_out, price[booking.resource])
         IN  {amount, (booking.check_out - booking.check_in + 1) * price[booking.resource],
              amount + price[booking.resource]}

NextPre == \E total_amount \in Totals(bookings[1]) : handle_pre_checkout_query(1, total_amount)

SpecPre == InitPre /\ [][NextPre]_vars

\* The bookings of one user while the BookingAdmin console edits rows.
NextAdmin ==
    \/ BookingFlow({1}, {1}, MaxBookings)
    \/ PaymentFlow
    \/ ManageFlow({1})
    \/ \E id \in Ids, st \in Statuses : BookingAdmin_update(id, st)

SpecAdmin == Init /\ [][NextAdmin]_vars

\* send_calendar as a function of the table, the session and the day: user 1
\* is in the middle of a booking of resource 1 and turns the pages of the
\* calendar; the table holds two Bookings of the resource, of any owners and
\* any ranges (two confirmed ones may overlap, see C1).
InitCal ==
    /\ now \in {24 * FirstDay, 24 * (FirstDay + 1)}
    /\ price = [r \in Resources |-> 1999]
    /\ bookings \in
          {<<Booking(t1, 1, d1[1], d1[2], "confirmed"), Booking(t2, 1, d2[1], d2[2], st2)>> :
              t1 \in Users, t2 \in Users,
              d1 \in {x \in Days \X Days : x[1] <= x[2]},
              d2 \in {x \in Days \X Days : x[1] <= x[2]},
              st2 \in {"confirmed", "waiting_payment"}}
    /\ user_booking_state \in
          {DictSet(EmptyDict, 1,
                   [res_id |-> 1, check_in |-> ci, check_out |-> None,
                    calendar_month |-> MonthOf(FirstDay), created |-> 24 * FirstDay]) :
              ci \in {None} \cup Days}
    /\ buttons = [u \in Users |->
                    IF u = 1 THEN {<<"calendar", "check_in", 0>>, <<"calendar", "check_out", 0>>}
                    ELSE {}]
    /\ invoice = <<0, 0>>
    /\ authorized = <<FALSE, FALSE>>
    /\ completed_notes = <<0, 0>>
    /\ cancel_notes = <<0, 0>>
    /\ workers = [w \in Workers |-> Idle]
    /\ SideInit
    /\ last = Event("start", 0, 0, NoRow, 0, "-")

NextCal ==
    \E m \in Months, t \in {"check_in", "check_out"} : callback_change_month(1, t, m)

SpecCal == InitCal /\ [][NextCal]_vars

\* One user books the same resource again after a first Booking.
NextRebook ==
    \/ BookingFlow({1}, {1}, MaxBookings + 1)
    \/ PaymentFlow

SpecRebook == Init /\ [][NextRebook]_vars

\* Sessions over hours: two users open and fill sessions, hours and days pass,
\* the sweep runs, an administrator restarts the bot.
NextSessions ==
    \/ \E u \in Users :
          \/ callback_book(u, 1)
          \/ \E t \in {"check_in", "check_out"}, d \in FirstDay..MaxPickDay :
                callback_datepick(u, t, d)
    \/ clean_expired_booking_states
    \/ restart_bot
    \/ Hour
    \/ Tick

SpecSessions == Init /\ [][NextSessions]_vars

\* The process over its restarts: while it polls, two users open and fill
\* sessions; an administrator restarts it, or it is killed; it starts again.
NextHandoff ==
    \/ /\ process = "polling"
       /\ \E u \in Users :
             \/ callback_book(u, 1)
             \/ \E t \in {"check_in", "check_out"}, d \in FirstDay..MaxPickDay :
                   callback_datepick(u, t, d)
    \/ restart_exit
    \/ kill
    \/ main

SpecHandoff == Init /\ [][NextHandoff]_vars

\* The help flow: users send texts and commands and press Cancel.
NextHelp ==
    \/ \E u \in Users, text \in Texts : message(u, text)
    \/ \E u \in Users : callback_help_cancel(u)

SpecHelp == Init /\ [][NextHelp]_vars

\* The cleaner thread next to the handlers: users open sessions while the
\* sweep is in its loop, and days pass.  The cleaner thread keeps running.
NextCleaner ==
    \/ \E u \in Users : callback_book(u, 1)
    \/ sweep_begin
    \/ sweep_next
    \/ Tick

SpecCleaner ==
    /\ Init
    /\ [][NextCleaner]_vars
    /\ WF_vars(sweep_begin)
    /\ WF_vars(sweep_next)

\* The database adapter: callers hand it statements, and every execution
\* ends with a result or with one of the exceptions.
NextSql ==
    \/ execute_sql_call
    \/ \E outcome \in Exceptions \cup {NoException} : execute_sql(outcome)

\* The thread that runs execute_sql keeps running.
SpecSql ==
    /\ Init
    /\ [][NextSql]_vars
    /\ WF_vars(\E outcome \in Exceptions \cup {NoException} : execute_sql(outcome))

\* get_booked_ranges_for_resource as a function of the table and the day: the
\* table holds two Bookings as the bot and the admin console can leave them
\* (any owner, resource and status, dates set or not), and the ranges of a
\* resource are asked for.
booked_ranges(res_id) ==
    /\ last' = EventView("ranges", 0, 0, NoRow, res_id, "-",
                          get_booked_ranges_for_resource(res_id))
    /\ UNCHANGED <<side, workers, now, db, user_booking_state, buttons, telegram,
                   managers_chat>>

InitRanges ==
    /\ now \in {24 * FirstDay, 24 * (FirstDay + 2)}
    /\ price = [r \in Resources |-> 1999]
    /\ bookings \in
          {<<Booking(t1, 1, ci1, co1, "confirmed"), Booking(t2, r2, ci2, co2, st2)>> :
              t1 \in Users, t2 \in Users, r2 \in Resources,
              ci1 \in {None} \cup Days, co1 \in {None} \cup Days,
              ci2 \in {None} \cup Days, co2 \in {None} \cup Days,
              st2 \in {"confirmed", "cancelled"}}
    /\ user_booking_state = EmptyDict
    /\ buttons = [u \in Users |-> {}]
    /\ invoice = <<0, 0>>
    /\ authorized = <<FALSE, FALSE>>
    /\ completed_notes = <<0, 0>>
    /\ cancel_notes = <<0, 0>>
    /\ workers = [w \in Workers |-> Idle]
    /\ SideInit
    /\ last = Event("start", 0, 0, NoRow, 0, "-")

NextRanges == \E res_id \in Resources : booked_ranges(res_id)

SpecRanges == InitRanges /\ [][NextRanges]_vars


\* One user books and confirms while calls to Telegram may fail; the user
\* confirms only while holding fewer than MaxBookings + 1 Booking rows.
NextConfirm ==
    \/ callback_book(1, 1)
    \/ \E t \in {"check_in", "check_out"}, d \in Days : callback_datepick(1, t, d)
    \/ \E sent \in BOOLEAN, ok \in BOOLEAN :
          /\ Cardinality(RowsOf(1)) < MaxBookings + 1
          /\ callback_confirm_booking(1, sent, ok)

SpecConfirm == Init /\ [][NextConfirm]_vars


\* One user's events handled by two worker threads: book, date picks and
\* month navigation run between the steps of the confirm handlers; the sweep
\* runs and days pass.
NextThreads ==
    \/ /\ Cardinality(RowsOf(1)) < MaxBookings
       /\ callback_book(1, 1)
    \/ \E t \in {"check_in", "check_out"}, d \in FirstDay..MaxPickDay :
          callback_datepick(1, t, d)
    \/ \E t \in {"check_in", "check_out"}, m \in Months : callback_change_month(1, t, m)
    \/ \E w \in Workers : confirm_create(w, 1)
    \/ \E w \in Workers, sent \in BOOLEAN : confirm_invoice(w, sent)
    \/ \E w \in Workers : confirm_pop(w)
    \/ clean_expired_booking_states
    \/ Tick

SpecThreads == Init /\ [][NextThreads]_vars


\* Two users at the same bot: each opens a session on the resource, taps days,
\* turns the calendar's months and confirms, in any interleaving of their
\* events.
NextTwoUsers ==
    \/ \E u \in Users :
          /\ Cardinality(RowsOf(u)) < MaxBookings
          /\ callback_book(u, 1)
    \/ \E u \in Users, t \in {"check_in", "check_out"}, d \in FirstDay..MaxPickDay :
          callback_datepick(u, t, d)
    \/ \E u \in Users, t \in {"check_in", "check_out"}, m \in Months :
          callback_change_month(u, t, m)
    \/ \E u \in Users, sent \in BOOLEAN : callback_confirm_booking(u, sent, TRUE)

SpecTwoUsers == Init /\ [][NextTwoUsers]_vars


\* ------------------------------------------------------------ properties
HasDates(b) == b.check_in # None /\ b.check_out # None

\* The inclusive ranges [check_in, check_out] of two rows share a day.
RangesOverlap(a, b) == a.check_in <= b.check_out /\ b.check_in <= a.check_out

SameDays(i, j) ==
    /\ i # j
    /\ bookings[i].resource = bookings[j].resource
    /\ HasDates(bookings[i]) /\ HasDates(bookings[j])
    /\ RangesOverlap(bookings[i], bookings[j])

\* C1: in every reachable state, any two distinct confirmed Bookings of one
\* resource have non-overlapping inclusive ranges [check_in, check_out].
C1_NoOverlappingConfirmed ==
    \A i, j \in Ids :
        (bookings[i].status = "confirmed" /\ bookings[j].status = "confirmed")
            => ~SameDays(i, j)

\* C2: however often the successful-payment notification of a Booking is
\* handled, the managers chat gets at most one booking-completed message for
\* it, and a handling after the first leaves the Booking's amount as it was.
C2_PaymentHandledOnce ==
    /\ \A id \in Ids : completed_notes[id] <= 1
    /\ (last.op = "successful_payment" /\ completed_notes[last.id] >= 1
            /\ last.row.amount # 0)
          => bookings[last.id].amount = last.row.amount

\* C3: of two waiting_payment Bookings of one resource with overlapping
\* ranges, pre-authorization is answered ok for at most one: the second to
\* ask is rejected.
C3_SecondPreAuthRejected ==
    \A i, j \in Ids :
        (/\ bookings[i].status = "waiting_payment"
         /\ bookings[j].status = "waiting_payment"
         /\ SameDays(i, j))
            => ~(authorized[i] /\ authorized[j])

\* C4: a successful-payment notification makes a Booking confirmed only when
\* its status was waiting_payment; for a failed, conflict or cancelled Booking
\* the status is not changed to confirmed.
C4_ConfirmedOnlyFromWaitingPayment ==
    (/\ last.op = "successful_payment"
     /\ last.row.status # "confirmed"
     /\ bookings[last.id].status = "confirmed")
        => last.row.status = "waiting_payment"

\* C5: a cancel event for a Booking that is not confirmed (waiting_payment,
\* failed, conflict, already cancelled) leaves its status unchanged, so that a
\* status becomes cancelled only from confirmed.
C5_CancelledOnlyFromConfirmed ==
    (/\ last.op = "cancel"
     /\ last.row.status \in {"waiting_payment", "failed", "conflict", "cancelled"})
        => bookings[last.id].status = last.row.status

\* C6: no event sets the status of an existing Booking to pending or
\* waiting_payment: a row in one of them is a new row or was in it before.
C6_NeverBackToWaitingPayment ==
    [][\A i \in Ids :
          bookings'[i].status \in {"pending", "waiting_payment"}
              => bookings'[i].status = bookings[i].status]_vars

\* C6 witness: pre-authorization was asked again for a Booking that had left
\* waiting_payment for conflict, and the Booking is still in conflict.
C6_RetryAfterConflict ==
    /\ last.op = "pre_checkout"
    /\ last.row.status = "conflict"
    /\ bookings[last.id].status = "conflict"

\* Another Booking of the resource of b is confirmed and overlaps b.
OtherConfirmedOverlaps(id, b) ==
    \E j \in Ids \ {id} :
        /\ bookings[j].resource = b.resource
        /\ bookings[j].status = "confirmed"
        /\ HasDates(bookings[j])
        /\ RangesOverlap(bookings[j], b)

\* C7: pre-authorization checks in this order, the first failing check
\* deciding: (1) status not waiting_payment: rejected, status unchanged;
\* (2) a date missing: rejected, status failed; (3) another confirmed Booking
\* of the resource overlaps: rejected, status conflict; (4) the total differs
\* from the server-side amount: rejected; otherwise it answers ok.
C7_PreAuthCheckOrder ==
    last.op = "pre_checkout" =>
        LET b == last.row
            after == bookings[last.id]
        IN  IF b.status # "waiting_payment"
            THEN last.out # "ok" /\ after.status = b.status
            ELSE IF ~HasDates(b)
            THEN last.out # "ok" /\ after.status = "failed"
            ELSE IF OtherConfirmedOverlaps(last.id, b)
            THEN last.out # "ok" /\ after.status = "conflict"
            ELSE IF last.arg # ChargeAmount(b.check_in, b.check_out, price[b.resource])
            THEN last.out # "ok"
            ELSE last.out = "ok"

\* C7 witness: a waiting_payment Booking with an overlapping confirmed one and
\* a wrong total was rejected for the conflict.
C7_ConflictBeforeAmount ==
    /\ last.op = "pre_checkout"
    /\ last.row.status = "waiting_payment"
    /\ HasDates(last.row)
    /\ last.arg # ChargeAmount(last.row.check_in, last.row.check_out, price[last.row.resource])
    /\ last.out = "pre_checkout_error_4"
    /\ bookings[last.id].status = "conflict"

\* C8: for a waiting_payment Booking with both dates and no overlapping
\* confirmed Booking of its resource, pre-authorization answers ok exactly
\* when the total is ((check_out - check_in) + 1) * price * 100.
C8_AmountInvariant ==
    (/\ last.op = "pre_checkout"
     /\ last.row.status = "waiting_payment"
     /\ HasDates(last.row)
     /\ ~OtherConfirmedOverlaps(last.id, last.row))
        => (last.out = "ok" <=>
               last.arg = ((last.row.check_out - last.row.check_in) + 1)
                              * price[last.row.resource])

\* C9: a pre-authorization rejected for a wrong amount, a conflicting
\* confirmed Booking or a missing date leaves the Booking failed or conflict.
C9_RejectionIsTerminal ==
    (/\ last.op = "pre_checkout"
     /\ last.out \in {"wrong_amount", "pre_checkout_error_4", "pre_checkout_error_3"})
        => bookings[last.id].status \in {"failed", "conflict"}

\* C10: a cancel event for a confirmed Booking makes it cancelled when its
\* check_in is after today; otherwise the Booking stays confirmed and the
\* managers chat gets no cancellation message.
C10_CancelOnlyBeforeCheckIn ==
    [][(last'.op = "cancel" /\ bookings[last'.id].status = "confirmed")
          => IF bookings[last'.id].check_in > Today
             THEN bookings'[last'.id].status = "cancelled"
             ELSE /\ bookings'[last'.id].status = "confirmed"
                  /\ cancel_notes' = cancel_notes]_vars

\* C10 witness: the cancel button of a confirmed Booking was pressed on the
\* day of its check_in or later, and the Booking is still confirmed.
C10_LateCancelRefused ==
    /\ last.op = "cancel"
    /\ last.out = "cancel_error"
    /\ last.row.status = "confirmed"
    /\ last.row.check_in <= Today
    /\ bookings[last.id].status = "confirmed"
    /\ cancel_notes[last.id] = 0

\* The booked ranges of the resource that hold day d and belong (own = TRUE)
\* or do not belong (own = FALSE) to the viewer.
RangesWith(d, res_id, user_id, own) ==
    LET ranges == get_booked_ranges_for_resource(res_id)
    IN  {i \in 1..Len(ranges) :
            /\ ranges[i][2] <= d /\ d <= ranges[i][3]
            /\ (ranges[i][1] = user_id) = own}

\* The cell of day d by the order of precedence of the calendar.
Classify(d, select_type, state, user_id) ==
    IF d < Today THEN <<"null", "past", 0>>
    ELSE IF RangesWith(d, state.res_id, user_id, TRUE) # {} THEN <<"null", "mine", 0>>
    ELSE IF RangesWith(d, state.res_id, user_id, FALSE) # {} THEN <<"null", "others", 0>>
    ELSE IF select_type = "check_out" /\ (state.check_in = None \/ d <= state.check_in)
    THEN <<"null", "disabled", 0>>
    ELSE <<"datepick", select_type, d>>

\* C11: every day of the displayed month is classified by the first rule that
\* applies: before today past; in a range of the viewer mine; in a range of
\* someone else others; check-out stage and day <= check-in not selectable;
\* otherwise a button carrying the stage and the day.
C11_CalendarPrecedence ==
    (last.op = "month" /\ last.out \in {"check_in", "check_out"})
        => \A d \in DOMAIN last.view :
              last.view[d] = Classify(d, last.out, user_booking_state[last.user], last.user)

\* C12: a day from today on inside a booked range of the viewer is rendered
\* mine, and so not selectable, in the check-in and the check-out stage.
C12_OwnDayIsMine ==
    (last.op = "month" /\ last.out \in {"check_in", "check_out"})
        => \A d \in DOMAIN last.view :
              (/\ d >= Today
               /\ RangesWith(d, user_booking_state[last.user].res_id, last.user, TRUE) # {})
                  => last.view[d] = <<"null", "mine", 0>>

\* C13: no date-pick event stores, as check-in or check-out of the session, a
\* day that lies inside a confirmed Booking of that resource owned by the
\* same user when the event is handled.
C13_OwnBookedDayNeverPicked ==
    (last.op = "datepick" /\ last.out \in {"check_out", "picked_period"})
        => ~\E i \in Ids :
              /\ bookings[i].telegram_id = last.user
              /\ bookings[i].resource = user_booking_state[last.user].res_id
              /\ bookings[i].status = "confirmed"
              /\ HasDates(bookings[i])
              /\ bookings[i].check_in <= last.arg /\ last.arg <= bookings[i].check_out

\* C14: a session whose check_out is set has a check_in that is set and is
\* earlier than or equal to check_out.
C14_SessionDatesOrdered ==
    \A u \in DOMAIN user_booking_state :
        user_booking_state[u].check_out # None
            => /\ user_booking_state[u].check_in # None
               /\ user_booking_state[u].check_in <= user_booking_state[u].check_out

\* C15: one run of the expiry sweep removes exactly the sessions whose
\* check_out is null and that were created more than 24 hours before the run;
\* every other session is kept as it was.
C15_SweepRemovesExactlyStale ==
    [][last'.op = "sweep" =>
          /\ DOMAIN user_booking_state' =
                {u \in DOMAIN user_booking_state :
                    ~(/\ user_booking_state[u].check_out = None
                      /\ now - user_booking_state[u].created > 24)}
          /\ \A u \in DOMAIN user_booking_state' :
                user_booking_state'[u] = user_booking_state[u]]_vars

\* A sweep has removed a session created 25 hours before and kept one with a
\* null check_out created 23 hours before.
C15_Swept25Kept23 ==
    /\ last.op = "sweep"
    /\ \E u \in DOMAIN last.view :
          /\ last.view[u].check_out = None
          /\ now - last.view[u].created = 25
          /\ u \notin DOMAIN user_booking_state
    /\ \E v \in DOMAIN user_booking_state :
          /\ user_booking_state[v].check_out = None
          /\ now - user_booking_state[v].created = 23

\* C16: a session that has not reached invoice creation does not survive a
\* sweep that runs when the session is older than 24 hours.
C16_NoStaleSessionAfterSweep ==
    last.op = "sweep" =>
        \A u \in DOMAIN user_booking_state :
            now - user_booking_state[u].created <= 24

\* C20: saving the session map at shutdown and loading it at the next startup
\* restores the same map: the same user ids and, for each, the same resource
\* id, check_in, check_out, displayed month and creation time.
C20_RestartRestoresSessions ==
    [][last'.op = "restart" => user_booking_state' = user_booking_state]_vars

\* A restart has carried over a session with a check_in and a null check_out
\* that was created at an hour other than midnight.
C20_RestartedWithSession ==
    /\ last.op = "restart"
    /\ \E u \in DOMAIN user_booking_state :
          /\ user_booking_state[u].check_in # None
          /\ user_booking_state[u].check_out = None
          /\ user_booking_state[u].created % 24 # 0

\* C19: after a confirm event handled for a session with both dates set, the
\* user's session is no longer in the store, whether the invoice was sent or
\* its dispatch failed.
C19_SessionGoneAfterConfirm ==
    (last.op = "confirm" /\ last.out \in {"invoice", "payment_error"})
        => last.user \notin DOMAIN user_booking_state

\* C17: two events of one user handled by different worker threads at
\* overlapping times have the effect of the two handled one after the other.
\* Handled one after the other, each confirm that creates a Booking row also
\* removes the session, so a user who opens a session only while holding
\* fewer than MaxBookings rows never holds more than MaxBookings rows.
C17_ConfirmsSerialize ==
    \A u \in Users : Cardinality(RowsOf(u)) <= MaxBookings

\* C18: a Booking row is created only by a confirm event handled for a session
\* with both dates set, from that session and with status waiting_payment;
\* book, date-pick and month-navigation events and the sweep neither create
\* nor change a row, and a confirm event with no session or with a missing
\* date creates none.
C18_RowsOnlyFromConfirm ==
    [][/\ Len(bookings') > Len(bookings) =>
            /\ last'.op = "confirm"
            /\ Complete(last'.user)
            /\ bookings' = Append(bookings,
                    Booking(last'.user, user_booking_state[last'.user].res_id,
                            user_booking_state[last'.user].check_in,
                            user_booking_state[last'.user].check_out, "waiting_payment"))
       /\ last'.op \in {"book", "datepick", "month", "sweep"} => bookings' = bookings
       /\ (last'.op = "confirm" /\ last'.out = "session_error") => bookings' = bookings]_vars

\* A confirm event has created a waiting_payment row, and another confirm
\* event with no session has been answered with the session error.
C18_RowCreatedAndRefused ==
    /\ last.op = "confirm"
    /\ last.out = "session_error"
    /\ last.user \notin DOMAIN user_booking_state
    /\ \E i \in Ids : bookings[i].status = "waiting_payment" /\ HasDates(bookings[i])

\* C21: the session snapshot is a one-shot handoff.  While the bot polls the
\* snapshot does not exist; a startup removes the snapshot it loads; a startup
\* that finds none starts with an empty map; and a startup loads a snapshot
\* only right after the shutdown that wrote it, so none is loaded twice.
C21_SnapshotIsOneShot ==
    [][/\ process' = "polling" => ~state_file'.exists
       /\ last'.op = "main" =>
             IF state_file.exists
             THEN /\ last.op = "restart"
                  /\ user_booking_state' = load_user_booking_state(state_file.data)
             ELSE user_booking_state' = EmptyDict]_vars

\* A user had picked both dates, the bot went down, and it has started with
\* no snapshot and so with no session.
C21_StartedWithoutSnapshot ==
    /\ last.op = "main"
    /\ last.out = "no_file"
    /\ user_booking_state = EmptyDict
    /\ \E u \in Users : <<"confirm_booking", "-", 0>> \in buttons[u]

\* The end date of a Booking: check_out, or check_in when check_out is unset.
EndOf(b) == IF b.check_out # None THEN b.check_out ELSE b.check_in

\* The Bookings of a resource that the claim says have a tuple.
Current(b, res_id) ==
    /\ b.resource = res_id
    /\ b.status = "confirmed"
    /\ b.check_in # None
    /\ EndOf(b) >= Today

\* C22: the booked ranges of a resource hold exactly one (owner, start, end)
\* tuple for each Booking of the resource that is confirmed, has a check_in
\* and an end date of today or later, no tuple for any other Booking, and
\* asking for them changes no state.
C22_BookedRangesExact ==
    [][last'.op = "ranges" =>
          /\ UNCHANGED <<now, bookings, price, user_booking_state>>
          /\ \A t \in {last'.view[i] : i \in DOMAIN last'.view}
                     \cup {<<bookings[j].telegram_id, bookings[j].check_in, EndOf(bookings[j])>> :
                              j \in {k \in Ids : Current(bookings[k], last'.arg)}} :
                Cardinality({i \in DOMAIN last'.view : last'.view[i] = t}) =
                Cardinality({j \in Ids :
                                /\ Current(bookings[j], last'.arg)
                                /\ t = <<bookings[j].telegram_id, bookings[j].check_in,
                                         EndOf(bookings[j])>>})]_vars

\* The ranges asked for hold the single-day range of a Booking with no
\* check_out, while a confirmed Booking of the resource with no check_out
\* that started before today has none.
C22_OpenEndedKeptAndSkipped ==
    /\ last.op = "ranges"
    /\ Len(last.view) = 1
    /\ last.view[1][2] = last.view[1][3]
    /\ \E j \in Ids :
          /\ bookings[j].resource = last.arg
          /\ bookings[j].status = "confirmed"
          /\ bookings[j].check_out = None
          /\ bookings[j].check_in # None
          /\ bookings[j].check_in < Today
    /\ \E j \in Ids :
          /\ Current(bookings[j], last.arg)
          /\ bookings[j].check_out = None

\* C23: execute_sql always terminates.  Each level runs the statement once
\* and only a transient failure leads to the next level, so the statement is
\* retried at most 20 times; when all executions fail transiently the error
\* of the last one reaches the caller after the 20th retry, and when an
\* execution succeeds the caller gets the result and no error.
C23_ExecuteSqlTerminates ==
    /\ [](/\ mysql.executions <= MaxRetries + 1
          /\ mysql.reconnects <= MaxRetries + 1
          /\ mysql.pc = "executing" => mysql.executions = mysql.tr
          /\ mysql.pc = "returned" => mysql.raised = NoException
          /\ (mysql.pc = "raised" /\ mysql.reconnects = mysql.executions)
                => (mysql.executions = MaxRetries + 1 /\ mysql.raised = mysql.exc))
    /\ (mysql.pc = "executing") ~> (mysql.pc \in {"returned", "raised"})

\* A statement has succeeded at the last permitted retry, after 20 transient
\* failures.
C23_SucceededAtLastRetry ==
    /\ mysql.pc = "returned"
    /\ mysql.executions = MaxRetries + 1
    /\ mysql.reconnects = MaxRetries

\* The failures the claim calls transient: an OperationalError whose message
\* holds one of the known signatures.
KnownTransient ==
    {[class |-> "OperationalError", text |-> <<"2006", "MySQL", "server", "has", "gone", "away">>],
     [class |-> "OperationalError", text |-> <<"MySQL", "Connection", "not", "available.">>]}

\* C24: an error of an execution that is not of a transient class, or whose
\* message holds no transient signature, reaches the caller unchanged from the
\* attempt that raised it, with no reconnect, no sleep and no retry.
C24_OtherErrorsPropagate ==
    [][(/\ mysql'.executions = mysql.executions + 1
        /\ mysql'.exc # NoException
        /\ mysql'.exc \notin KnownTransient)
          => /\ mysql'.pc = "raised"
             /\ mysql'.raised = mysql'.exc
             /\ mysql'.reconnects = mysql.reconnects
             /\ mysql'.slept = mysql.slept
             /\ mysql'.tr = mysql.tr]_vars

\* After two transient failures and reconnects, an OperationalError with no
\* transient signature has been raised to the caller.
C24_RaisedAfterRetries ==
    /\ mysql.pc = "raised"
    /\ mysql.raised.class = "OperationalError"
    /\ mysql.raised \notin KnownTransient
    /\ mysql.reconnects = 2
    /\ mysql.executions = 3

\* C25: a date-pick, month-navigation or confirm event of a user who has no
\* session is answered with the session error and raises nothing in the
\* handler (the session store and the Booking rows stay as they were).
C25_NoSessionAnsweredWithError ==
    /\ (last.op \in {"datepick", "month"} /\ last.user \notin DOMAIN user_booking_state)
          => last.out = "session_error"
    /\ (last.op = "confirm" /\ last.out \notin {"invoice", "payment_error"})
          => last.out = "session_error"

\* C26: for a resource priced 100 per night (10000 minor units) and a session
\* whose check-out is two days after its check-in, the confirm event issues an
\* invoice of 20000 minor units, and the successful payment of the invoice
\* sets the Booking to confirmed with that amount.
C26_TwoNightsCharged ==
    /\ (/\ last.op = "confirm"
        /\ last.out = "invoice"
        /\ price[bookings[last.id].resource] = 10000
        /\ bookings[last.id].check_out - bookings[last.id].check_in = 2)
          => last.arg = 20000
    /\ (/\ last.op = "successful_payment"
        /\ last.out = "success_booking"
        /\ price[bookings[last.id].resource] = 10000
        /\ bookings[last.id].check_out - bookings[last.id].check_in = 2
        /\ last.arg = invoice[last.id])
          => /\ bookings[last.id].status = "confirmed"
             /\ bookings[last.id].amount = 20000

\* C27: an error raised during a run of the expiry sweep does not end the
\* cleaner: after any run that ended with an error the sweep runs again, and
\* again after that.
C27_CleanerRunsAgain ==
    [](cleaner.failed => <>(cleaner.pc = "iterating"))

\* A run of the sweep ended with an error because a user opened a session
\* during the loop, and a later run has removed an expired session.
C27_SweptAfterError ==
    /\ cleaner.failed
    /\ last.op = "sweep"
    /\ last.out = "-"
    /\ \E u \in Users :
          /\ <<"calendar", "check_in", 0>> \in buttons[u]
          /\ u \notin DOMAIN user_booking_state

\* C28: after /help, the user's next text message ends the help session: a
\* regular text is forwarded to the managers chat exactly once, a message that
\* starts with "/" (/start, /bookings, any command; a new /help opens a new
\* help session and is left aside) is not forwarded, and in both cases the
\* user is no longer waited for; pressing Cancel also ends the waiting.
C28_NextMessageEndsHelp ==
    [][/\ (/\ last'.op = "message"
           /\ last'.user \in help_waiting_for_input
           /\ last'.view # <<"/", "help">>)
             => /\ last'.user \notin help_waiting_for_input'
                /\ forwarded'[last'.user] =
                      forwarded[last'.user] + (IF last'.view[1] = "/" THEN 0 ELSE 1)
       /\ last'.op = "help_cancel" => last'.user \notin help_waiting_for_input']_vars

\* C29: a check-out tap whose candidate overlaps a confirmed Booking of the
\* session's resource leaves the session with check_in null and check_out
\* null (the calendar is shown again in the check-in stage with the warning).
C29_OverlapClearsDates ==
    (last.op = "datepick" /\ last.out = "overlaps_error")
        => /\ user_booking_state[last.user].check_in = None
           /\ user_booking_state[last.user].check_out = None

\* The confirmed Bookings of a resource that a range from check_in to the
\* candidate day touches.
Touched(res_id, check_in, candidate) ==
    {i \in Ids : /\ bookings[i].resource = res_id
                 /\ bookings[i].status = "confirmed"
                 /\ HasDates(bookings[i])
                 /\ check_in <= bookings[i].check_out
                 /\ candidate >= bookings[i].check_in}

\* C30: a check-out tap stores the candidate as check_out, keeping the rest of
\* the session, exactly when the candidate is after the stored check-in and
\* touches no Booking of the resource that is confirmed when the tap is
\* handled; otherwise check_out is left as it was.
C30_CheckOutStoredIffFree ==
    [][(last'.op = "datepick" /\ last'.out # "check_out") =>
          IF /\ last'.user \in DOMAIN user_booking_state
             /\ user_booking_state[last'.user].check_in # None
             /\ last'.arg > user_booking_state[last'.user].check_in
             /\ Touched(user_booking_state[last'.user].res_id,
                        user_booking_state[last'.user].check_in, last'.arg) = {}
          THEN user_booking_state' =
                  [user_booking_state EXCEPT ![last'.user].check_out = last'.arg]
          ELSE \A u \in DOMAIN user_booking_state :
                  /\ u \in DOMAIN user_booking_state'
                  /\ user_booking_state'[u].check_out = user_booking_state[u].check_out]_vars

\* A check-out tap on a day inside another user's confirmed Booking has been
\* refused with the overlap warning.
C30_RefusedAfterRender ==
    /\ last.op = "datepick"
    /\ last.out = "overlaps_error"
    /\ \E i \in Ids :
          /\ bookings[i].telegram_id # last.user
          /\ bookings[i].status = "confirmed"
          /\ bookings[i].check_in <= last.arg
          /\ last.arg <= bookings[i].check_out

\* C31: a check-out tap of a user whose session has a check-in day, on a
\* candidate day that is not after that day, is answered with the date-range
\* alert and leaves every session and every Booking row as they were.
C31_EarlyCheckOutRejected ==
    [][(/\ last'.op = "datepick"
        /\ last'.out # "check_out"
        /\ last'.user \in DOMAIN user_booking_state
        /\ user_booking_state[last'.user].check_in # None
        /\ last'.arg <= user_booking_state[last'.user].check_in)
       => /\ last'.out = "date_range_error"
          /\ user_booking_state' = user_booking_state
          /\ bookings' = bookings]_vars

\* A check-out tap on the check-in day itself has been rejected while the
\* session already held a check-out day.
C31_SameDayRejected ==
    /\ last.op = "datepick"
    /\ last.out = "date_range_error"
    /\ last.user \in DOMAIN user_booking_state
    /\ last.arg = user_booking_state[last.user].check_in
    /\ user_booking_state[last.user].check_out # None

\* C32: a check-out tap handled for a session whose check_in is null is
\* rejected as a validation error: the handler raises no unhandled error and
\* the session is left with check_in null and check_out null.
C32_NullCheckInRejected ==
    (/\ last.op = "datepick"
     /\ last.out # "overlaps_error"
     /\ last.user \in DOMAIN user_booking_state
     /\ user_booking_state[last.user].check_in = None)
    => /\ last.out # "error"
       /\ user_booking_state[last.user].check_out = None

\* C33: a check-in tap of a user with a session stores the tapped day as
\* check_in and changes nothing else of that session (check_out, resource,
\* displayed month, creation time) nor any other session or Booking row, and
\* the calendar is shown again in the check-out stage.
C33_CheckInTapStoresDay ==
    [][(/\ last'.op = "datepick"
        /\ last'.out = "check_out"
        /\ last'.user \in DOMAIN user_booking_state)
       => /\ user_booking_state' =
                [user_booking_state EXCEPT ![last'.user].check_in = last'.arg]
          /\ bookings' = bookings
          /\ <<"calendar", "check_out", 0>> \in buttons'[last'.user]
          /\ last'.view = CalendarCells(user_booking_state'[last'.user], last'.user,
                                        "check_out")]_vars

\* A check-in tap has replaced the check-in day of a session that already held
\* a check-out day, and that check-out day is still there.
C33_CheckInTappedWithCheckOut ==
    /\ last.op = "datepick"
    /\ last.out = "check_out"
    /\ last.user \in DOMAIN user_booking_state
    /\ user_booking_state[last.user].check_in = last.arg
    /\ user_booking_state[last.user].check_out # None
    /\ user_booking_state[last.user].calendar_month # MonthOf(last.arg)

\* C34: a month-navigation event of a user with a session changes only the
\* displayed month of that session: check_in, check_out, resource and creation
\* time keep their values, the calendar is shown again in the stage of the
\* tapped button, and no Booking row changes.
C34_MonthNavigationOnlyMovesMonth ==
    [][(/\ last'.op = "month"
        /\ last'.user \in DOMAIN user_booking_state)
       => /\ user_booking_state' =
                [user_booking_state EXCEPT ![last'.user].calendar_month = last'.arg]
          /\ bookings' = bookings
          /\ last'.out \in {"check_in", "check_out"}
          /\ <<"calendar", last'.out, 0>> \in buttons[last'.user]
          /\ last'.view = CalendarCells(user_booking_state'[last'.user], last'.user,
                                        last'.out)]_vars

\* The calendar of the check-out stage has been moved to a month other than
\* that of the stored check-in day, while the table holds a Booking.
C34_MovedAwayFromCheckIn ==
    /\ last.op = "month"
    /\ last.out = "check_out"
    /\ last.user \in DOMAIN user_booking_state
    /\ user_booking_state[last.user].calendar_month = last.arg
    /\ user_booking_state[last.user].check_in # None
    /\ MonthOf(user_booking_state[last.user].check_in) # last.arg
    /\ Len(bookings) > 0

\* C35: when the invoice dispatch of a confirm fails, the Booking that confirm
\* created goes from waiting_payment to failed in that same step and no invoice
\* exists for it; when the dispatch succeeds the Booking stays waiting_payment
\* and has its invoice; a failed Booking is not invoiced or changed afterwards.
C35_FailedDispatchMarksFailed ==
    [][/\ (last'.op = "confirm" /\ last'.out = "payment_error") =>
             /\ bookings[last'.id].status = "waiting_payment"
             /\ bookings' = [bookings EXCEPT ![last'.id].status = "failed"]
             /\ invoice'[last'.id] = 0
             /\ \A w \in Workers :
                   workers'[w].id = last'.id => workers'[w].pc # "send_invoice"
       /\ (last'.op = "confirm" /\ last'.out = "invoice") =>
             /\ bookings' = bookings
             /\ bookings'[last'.id].status = "waiting_payment"
             /\ invoice'[last'.id] = last'.arg
             /\ last'.arg > 0
       /\ \A i \in Ids :
             bookings[i].status = "failed" =>
                /\ bookings'[i] = bookings[i]
                /\ invoice'[i] = 0]_vars

\* The dispatch of the invoice of a Booking has failed and the row is failed,
\* with its session still waiting for the worker's last step.
C35_DispatchFailed ==
    /\ last.op = "confirm"
    /\ last.out = "payment_error"
    /\ bookings[last.id].status = "failed"
    /\ invoice[last.id] = 0
    /\ last.user \in DOMAIN user_booking_state

\* C36: the pause before the retry that follows failed execution i (i = 0 for
\* the first) is i tenths of a second, so the pauses grow linearly from zero,
\* and the time a statement has spent pausing is the sum 0 + 1 + ... of them,
\* at most the 190 tenths of a statement that exhausts its retries.
C36_BackoffLinear ==
    /\ [][mysql'.tr = mysql.tr + 1 =>
             /\ mysql.executions = mysql.tr
             /\ mysql'.slept - mysql.slept = mysql.executions]_vars
    /\ [](/\ 2 * mysql.slept = mysql.tr * (mysql.tr - 1)
          /\ 2 * mysql.slept <= MaxRetries * (MaxRetries - 1))

\* A statement has exhausted its retries after pausing 19 seconds in all.
C36_ExhaustedAfterAllPauses ==
    /\ mysql.pc = "raised"
    /\ mysql.tr = MaxRetries
    /\ mysql.executions = MaxRetries + 1
    /\ mysql.slept = 190

\* C37: one completed session yields at most one Booking: however many confirm
\* events are handled for it, in sequence or at the same time on two workers,
\* no two Booking rows come from it and no two invoices are dispatched for it.
\* (No user opens a second session once a row of theirs exists, so two rows of
\* one user come from one session.)
C37_OneBookingPerSession ==
    /\ \A i, j \in Ids :
          (/\ bookings[i].telegram_id = bookings[j].telegram_id
           /\ bookings[i].resource = bookings[j].resource
           /\ bookings[i].check_in = bookings[j].check_in
           /\ bookings[i].check_out = bookings[j].check_out) => i = j
    /\ \A i, j \in Ids :
          (/\ bookings[i].telegram_id = bookings[j].telegram_id
           /\ invoice[i] # 0
           /\ invoice[j] # 0) => i = j

\* C38: every Booking row created by a confirm event has both dates set with
\* check_in strictly before check_out, whatever the order of the date taps
\* that preceded the confirm (so the days charged are at least two).
C38_RowsHaveOrderedDates ==
    \A i \in Ids :
        /\ HasDates(bookings[i])
        /\ bookings[i].check_in < bookings[i].check_out

\* C39: handling a book, date-pick, month-navigation or confirm event of one
\* user never creates, changes or removes the session of another user.
C39_OtherSessionsUntouched ==
    [][last'.op \in {"book", "datepick", "month", "confirm"} =>
          \A v \in Users \ {last'.user} :
             /\ v \in DOMAIN user_booking_state' <=> v \in DOMAIN user_booking_state
             /\ v \in DOMAIN user_booking_state =>
                   user_booking_state'[v] = user_booking_state[v]]_vars

\* A confirm of one user has created a Booking and removed that user's session
\* while the other user's session, with its dates picked, is still there.
C39_ConfirmedBesideOpenSession ==
    /\ last.op = "confirm"
    /\ last.out = "invoice"
    /\ last.user \notin DOMAIN user_booking_state
    /\ \E v \in DOMAIN user_booking_state :
          /\ user_booking_state[v].check_in # None
          /\ user_booking_state[v].check_out # None

\* C40: a Booking is cancelled at most once: the managers chat receives at most
\* one booking-cancelled notification, with its refund amount, per Booking.
C40_CancelledAtMostOnce ==
    \A i \in Ids : cancel_notes[i] <= 1
====
